---- MODULE Spec2Model ----
(***************************************************************************)
(* Model of the MD5 cracking coordinator (server.py) and of the worker's   *)
(* block search (client.py).                                               *)
(*                                                                         *)
(* Spec       : the coordinator.  One handler thread per connection        *)
(*              (handle_client), all sharing current_number, found,        *)
(*              found_number, clients and assigned_work behind `lock`;     *)
(*              plus the accept loop of server_main.                       *)
(* ClientSpec : one pass of process_work over a received block: the        *)
(*              sub-range processes, the result queue and the parent's     *)
(*              polling loop.                                              *)
(***************************************************************************)
EXTENDS Integers, Sequences, FiniteSets, TLC

(***************************************************************************)
(* Program constants.  START_NUMBER is the source's value.  END_NUMBER and *)
(* BLOCK_SIZE_PER_CORE are scaled down (source: 10^10 - 1 and 200000) so   *)
(* that exhausting the keyspace takes a handful of requests.               *)
(***************************************************************************)
START_NUMBER == 0
END_NUMBER == 3
BLOCK_SIZE_PER_CORE == 2

(***************************************************************************)
(* Bounds of the model.                                                    *)
(***************************************************************************)
\* inbound events (messages and end-of-stream) the coordinator reads in all
MaxMsgs == 3
\* the largest 'cores' value a register message carries
MaxCores == 2
\* the largest block end a worker is handed in ClientSpec
MaxEnd == 4
\* the largest number of sub-range processes of a worker in ClientSpec
MaxProcs == 3

\* connections the accept loop may hand to handler threads
Conns == {1, 2}
\* 'cores' values of register messages: the code accepts any integer (a
\* message without the field counts as cores = 1, which is among them)
CoresValues == (-1) .. MaxCores

Free == 0
None == << >>

Min(a, b) == IF a <= b THEN a ELSE b

\* f"{number:010d}": ten decimal digits, most significant first
Pow10[k \in 0 .. 10] == IF k = 0 THEN 1 ELSE 10 * Pow10[k - 1]
Format(number) == [i \in 1 .. 10 |-> (number \div Pow10[10 - i]) % 10]

\* the values a found message may carry in its 'number' field
FoundNumbers == {Format(1), Format(2)}

\* inbound messages, already decoded by json.loads
RegisterMsgs == {[type |-> "register", cores |-> k] : k \in CoresValues}
RequestMsgs == {[type |-> "request_work"]}
FoundMsgs == {[type |-> "found", number |-> n] : n \in FoundNumbers}
                \cup {[type |-> "found"]}
Messages == RegisterMsgs \cup RequestMsgs \cup FoundMsgs
NoMessage == [type |-> "none"]
NoWork == [start |-> 0, end |-> -1]

VARIABLES
    \* ---- server.py globals
    lock,            \* Free, or the connection whose thread holds the lock
    current_number,
    found,
    found_number,
    clients,         \* list of {'conn', 'cores'}
    assigned_work,   \* dict conn -> {'start', 'end'}
    \* ---- handle_client locals, per connection
    pc,              \* position of the connection's handler thread
    client_cores,
    message,
    work,            \* assign_work's local 'work'
    \* ---- server_main
    running,         \* the accept loop has not yet seen found
    \* ---- observation of the execution
    sent,            \* per connection, the messages written to it, in order
    issued,          \* every block carved by assign_work, in order
    abandoned,       \* indexes into issued of blocks dropped by cleanup_client
    broadcasts,      \* completed runs of notify_all_clients
    nmsgs,           \* inbound events read so far
    \* ---- client.py, process_work over one block
    c_start, c_end, cores, target,
    processes_list,  \* per process: start, end, next number, state
    result_queue,
    c_found_number,
    ppc,             \* position of the parent (process_work)
    chk,             \* index of the all(...) scan over processes_list
    \* ---- the peers of the coordinator
    stalled,         \* connections whose peer takes no more data: a send blocks
    inbox,           \* per connection, the messages written by the worker and
                     \* not yet read by the handler thread
    wpc,             \* position of the worker's process_work loop
    wbuf,            \* the worker's decoded lines not yet acted on
    rd,              \* how many entries of sent[c] the worker has received
    why              \* what ended the worker

svars == <<lock, current_number, found, found_number, clients, assigned_work,
           pc, client_cores, message, work, running,
           sent, issued, abandoned, broadcasts, nmsgs>>
cvars == <<c_start, c_end, cores, target, processes_list, result_queue,
           c_found_number, ppc, chk>>
pvars == <<stalled, inbox, wpc, wbuf, rd, why>>
vars == <<svars, cvars, pvars>>

----------------------------------------------------------------------------
(***************************************************************************)
(* Coordinator                                                             *)
(***************************************************************************)

Pop(d, c) == [x \in DOMAIN d \ {c} |-> d[x]]
Put(d, c, v) == [x \in DOMAIN d \cup {c} |-> IF x = c THEN v ELSE d[x]]

\* send_message: the message is written to the connection; an error is
\* printed and swallowed.  The log keeps who sent it and whether the lock
\* was held by anyone at that moment.
Send(log, c, type, via) ==
    [log EXCEPT ![c] = Append(@, [type |-> type, via |-> via,
                                  locked |-> lock # Free])]

\* conn.sendall on an accepted socket has no timeout: it returns once the
\* bytes are taken, and does not return while the peer takes none
CanSend(c) == c \notin stalled

\* server.py:60
BlockSize(n) == BLOCK_SIZE_PER_CORE * n
\* server.py:62
BlockEnd(start, block_size) == Min(start + block_size - 1, END_NUMBER)
\* server.py:64
NoMoreWork_OffByOne(start) == start > END_NUMBER + 1
NoMoreWork(start) == start > END_NUMBER
\* server.py:69
NextNumber_Same(end) == end
NextNumber(end) == end + 1
\* server.py:55
AlreadyFound_Never == FALSE
AlreadyFound == found
\* server.py:97
NotFoundYet_Always == TRUE
NotFoundYet == ~found

ServerInit ==
    /\ lock = Free
    /\ current_number = START_NUMBER
    /\ found = FALSE
    /\ found_number = None
    /\ clients = << >>
    /\ assigned_work = << >>
    /\ pc = [c \in Conns |-> "unconnected"]
    /\ client_cores = [c \in Conns |-> 1]
    /\ message = [c \in Conns |-> NoMessage]
    /\ work = [c \in Conns |-> NoWork]
    /\ running = TRUE
    /\ sent = [c \in Conns |-> << >>]
    /\ issued = << >>
    /\ abandoned = {}
    /\ broadcasts = 0
    /\ nmsgs = 0

\* server_main: accept() returns a connection and its handler thread starts
Accept(c) ==
    /\ running
    /\ pc[c] = "unconnected"
    /\ pc' = [pc EXCEPT ![c] = "recv"]
    /\ UNCHANGED cvars
    /\ UNCHANGED pvars
    /\ UNCHANGED <<lock, current_number, found, found_number, clients,
                   assigned_work, client_cores, message, work, running,
                   sent, issued, abandoned, broadcasts, nmsgs>>

\* server_main: 'while not found' sees the flag; the loop ends, the main
\* thread returns and the daemon handler threads end with the process
MainExit ==
    /\ running
    /\ found
    /\ running' = FALSE
    /\ UNCHANGED cvars
    /\ UNCHANGED pvars
    /\ UNCHANGED <<lock, current_number, found, found_number, clients,
                   assigned_work, pc, client_cores, message, work,
                   sent, issued, abandoned, broadcasts, nmsgs>>

\* handle_client: a well-formed message is read and dispatched on its type
Recv(c, m) ==
    /\ running
    /\ pc[c] = "recv"
    /\ nmsgs < MaxMsgs
    /\ nmsgs' = nmsgs + 1
    /\ message' = [message EXCEPT ![c] = m]
    /\ pc' = [pc EXCEPT ![c] =
                CASE m.type = "register" -> "register"
                  [] m.type = "request_work" -> "assign_work"
                  [] m.type = "found" -> "handle_found"]
    /\ UNCHANGED cvars
    /\ UNCHANGED pvars
    /\ UNCHANGED <<lock, current_number, found, found_number, clients,
                   assigned_work, client_cores, work, running,
                   sent, issued, abandoned, broadcasts>>

\* handle_client: json.loads fails; the line is dropped and the loop goes on
RecvMalformed_Close(c) ==
    /\ running
    /\ pc[c] = "recv"
    /\ nmsgs < MaxMsgs
    /\ nmsgs' = nmsgs + 1
    /\ pc' = [pc EXCEPT ![c] = "cleanup"]
    /\ UNCHANGED cvars
    /\ UNCHANGED pvars
    /\ UNCHANGED <<lock, current_number, found, found_number, clients,
                   assigned_work, client_cores, message, work, running,
                   sent, issued, abandoned, broadcasts>>
RecvMalformed(c) ==
    /\ running
    /\ pc[c] = "recv"
    /\ nmsgs < MaxMsgs
    /\ nmsgs' = nmsgs + 1
    /\ UNCHANGED cvars
    /\ UNCHANGED pvars
    /\ UNCHANGED <<lock, current_number, found, found_number, clients,
                   assigned_work, pc, client_cores, message, work, running,
                   sent, issued, abandoned, broadcasts>>

\* handle_client: recv returns no data (or raises): the loop is left and the
\* finally clause runs cleanup_client
RecvClosed(c) ==
    /\ running
    /\ pc[c] = "recv"
    /\ nmsgs < MaxMsgs
    /\ nmsgs' = nmsgs + 1
    /\ pc' = [pc EXCEPT ![c] = "cleanup"]
    /\ UNCHANGED cvars
    /\ UNCHANGED pvars
    /\ UNCHANGED <<lock, current_number, found, found_number, clients,
                   assigned_work, client_cores, message, work, running,
                   sent, issued, abandoned, broadcasts>>

\* 'with lock:' of register_client, assign_work, handle_found,
\* notify_all_clients and cleanup_client
LockedPcs == {"register", "assign_work", "handle_found", "notify", "cleanup"}
Locked(p) == [register |-> "register_locked", assign_work |-> "assign_locked",
              handle_found |-> "found_locked", notify |-> "notify_locked",
              cleanup |-> "cleanup_locked"][p]
Acquire(c) ==
    /\ running
    /\ pc[c] \in LockedPcs
    /\ lock = Free
    /\ lock' = c
    /\ pc' = [pc EXCEPT ![c] = Locked(pc[c])]
    /\ UNCHANGED cvars
    /\ UNCHANGED pvars
    /\ UNCHANGED <<current_number, found, found_number, clients,
                   assigned_work, client_cores, message, work, running,
                   sent, issued, abandoned, broadcasts, nmsgs>>

\* register_client, then 'client_cores = register_client(...)'
RegisterClient(c) ==
    /\ running
    /\ pc[c] = "register_locked"
    /\ clients' = Append(clients, [conn |-> c, cores |-> message[c].cores])
    /\ client_cores' = [client_cores EXCEPT ![c] = message[c].cores]
    /\ lock' = Free
    /\ message' = [message EXCEPT ![c] = NoMessage]
    /\ pc' = [pc EXCEPT ![c] = "recv"]
    /\ UNCHANGED cvars
    /\ UNCHANGED pvars
    /\ UNCHANGED <<current_number, found, found_number, assigned_work, work,
                   running, sent, issued, abandoned, broadcasts, nmsgs>>

\* assign_work: send_message(conn, stop / no_work) inside 'with lock:',
\* then 'return None' leaves the section.  A send that does not return
\* keeps the thread, and the lock, where they are.
ReplyUnderLock(c, type) ==
    IF CanSend(c)
    THEN /\ sent' = Send(sent, c, type, "assign_work")
         /\ pc' = [pc EXCEPT ![c] = "recv"]
         /\ lock' = Free
    ELSE /\ sent' = sent
         /\ pc' = [pc EXCEPT ![c] = "reply_blocked"]
         /\ lock' = lock

\* assign_work, the section under the lock
AssignWork(c) ==
    /\ running
    /\ pc[c] = "assign_locked"
    /\ LET aw == Pop(assigned_work, c)
           block_size == BlockSize(client_cores[c])
           start == current_number
           end == BlockEnd(current_number, block_size)
       IN  IF AlreadyFound
           THEN /\ ReplyUnderLock(c, "stop")
                /\ assigned_work' = aw
                /\ UNCHANGED <<current_number, work, issued>>
           ELSE IF NoMoreWork(start)
           THEN /\ ReplyUnderLock(c, "no_work")
                /\ assigned_work' = aw
                /\ UNCHANGED <<current_number, work, issued>>
           ELSE /\ current_number' = NextNumber(end)
                /\ work' = [work EXCEPT ![c] = [start |-> start, end |-> end]]
                /\ assigned_work' = Put(aw, c, [start |-> start, end |-> end])
                /\ issued' = Append(issued, [conn |-> c, start |-> start,
                                             end |-> end,
                                             cores |-> client_cores[c]])
                /\ pc' = [pc EXCEPT ![c] = "send_work"]
                /\ lock' = Free
                /\ UNCHANGED sent
    /\ message' = [message EXCEPT ![c] = NoMessage]
    /\ UNCHANGED cvars
    /\ UNCHANGED pvars
    /\ UNCHANGED <<found, found_number, clients, client_cores, running,
                   abandoned, broadcasts, nmsgs>>

\* assign_work, after the lock is released: the work message goes out
SendWork(c) ==
    /\ running
    /\ pc[c] = "send_work"
    /\ CanSend(c)
    /\ sent' = [sent EXCEPT ![c] =
                  Append(@, [type |-> "work", via |-> "assign_work",
                             locked |-> lock # Free,
                             start |-> work[c].start, end |-> work[c].end])]
    /\ work' = [work EXCEPT ![c] = NoWork]
    /\ pc' = [pc EXCEPT ![c] = "recv"]
    /\ UNCHANGED cvars
    /\ UNCHANGED pvars
    /\ UNCHANGED <<lock, current_number, found, found_number, clients,
                   assigned_work, client_cores, message, running,
                   issued, abandoned, broadcasts, nmsgs>>

\* handle_found, the section under the lock.  message['number'] of a message
\* without that field raises KeyError after found is set: the lock is
\* released, handle_client's except clause prints it and cleanup runs.
HandleFound(c) ==
    /\ running
    /\ pc[c] = "found_locked"
    /\ assigned_work' = Pop(assigned_work, c)
    /\ IF NotFoundYet
       THEN /\ found' = TRUE
            /\ IF "number" \in DOMAIN message[c]
               THEN /\ found_number' = message[c].number
                    /\ pc' = [pc EXCEPT ![c] = "notify"]
               ELSE /\ found_number' = found_number
                    /\ pc' = [pc EXCEPT ![c] = "cleanup"]
       ELSE /\ UNCHANGED <<found, found_number>>
            /\ pc' = [pc EXCEPT ![c] = "notify"]
    /\ lock' = Free
    /\ UNCHANGED cvars
    /\ UNCHANGED pvars
    /\ UNCHANGED <<current_number, clients, client_cores, message, work,
                   running, sent, issued, abandoned, broadcasts, nmsgs>>

\* notify_all_clients: stop to every entry of clients, in list order
RECURSIVE SendAll(_, _)
SendAll(log, cs) ==
    IF cs = << >> THEN log
    ELSE SendAll(Send(log, Head(cs).conn, "stop", "notify_all_clients"),
                 Tail(cs))

\* the entries of clients the loop gets through: all of them, or those
\* before the first one whose send does not return
Reached(cs) ==
    IF \A i \in DOMAIN cs : CanSend(cs[i].conn) THEN cs
    ELSE SubSeq(cs, 1,
                (CHOOSE i \in DOMAIN cs :
                    /\ ~CanSend(cs[i].conn)
                    /\ \A j \in 1 .. i - 1 : CanSend(cs[j].conn)) - 1)

NotifyAllClients(c) ==
    /\ running
    /\ pc[c] = "notify_locked"
    /\ sent' = SendAll(sent, Reached(clients))
    /\ IF Reached(clients) = clients
       THEN /\ broadcasts' = broadcasts + 1
            /\ lock' = Free
            /\ message' = [message EXCEPT ![c] = NoMessage]
            /\ pc' = [pc EXCEPT ![c] = "recv"]
       ELSE /\ pc' = [pc EXCEPT ![c] = "notify_blocked"]
            /\ UNCHANGED <<broadcasts, lock, message>>
    /\ UNCHANGED cvars
    /\ UNCHANGED pvars
    /\ UNCHANGED <<current_number, found, found_number, clients,
                   assigned_work, client_cores, work, running,
                   issued, abandoned, nmsgs>>

\* index in issued of the block the connection holds
LastIssued(c) ==
    CHOOSE i \in DOMAIN issued :
        /\ issued[i].conn = c
        /\ \A j \in DOMAIN issued : issued[j].conn = c => j <= i

\* cleanup_client: the assignment is popped and nothing is done with it;
\* the connection leaves clients and is closed
CleanupClient(c) ==
    /\ running
    /\ pc[c] = "cleanup_locked"
    /\ assigned_work' = Pop(assigned_work, c)
    /\ abandoned' = IF c \in DOMAIN assigned_work
                    THEN abandoned \cup {LastIssued(c)} ELSE abandoned
    /\ clients' = SelectSeq(clients, LAMBDA r : r.conn # c)
    /\ lock' = Free
    /\ message' = [message EXCEPT ![c] = NoMessage]
    /\ pc' = [pc EXCEPT ![c] = "closed"]
    /\ UNCHANGED cvars
    /\ UNCHANGED pvars
    /\ UNCHANGED <<current_number, found, found_number, client_cores, work,
                   running, sent, issued, broadcasts, nmsgs>>

\* the peer of a connection stops taking data, for good
PeerStalls(c) ==
    /\ running
    /\ pc[c] # "unconnected"
    /\ c \notin stalled
    /\ stalled' = stalled \cup {c}
    /\ UNCHANGED <<svars, cvars, inbox, wpc, wbuf, rd, why>>

\* the steps of the handler thread of a connection
HandlerStep(c) ==
    \/ Acquire(c)
    \/ RegisterClient(c)
    \/ AssignWork(c)
    \/ SendWork(c)
    \/ HandleFound(c)
    \/ NotifyAllClients(c)
    \/ CleanupClient(c)

ServerNext ==
    \/ MainExit
    \/ \E c \in Conns : Accept(c)
    \/ \E c \in Conns : \E m \in Messages : Recv(c, m)
    \/ \E c \in Conns : RecvMalformed(c)
    \/ \E c \in Conns : RecvClosed(c)
    \/ \E c \in Conns : Acquire(c)
    \/ \E c \in Conns : RegisterClient(c)
    \/ \E c \in Conns : AssignWork(c)
    \/ \E c \in Conns : SendWork(c)
    \/ \E c \in Conns : HandleFound(c)
    \/ \E c \in Conns : NotifyAllClients(c)
    \/ \E c \in Conns : CleanupClient(c)

----------------------------------------------------------------------------
(***************************************************************************)
(* Worker: process_work over one block                                     *)
(***************************************************************************)

\* client.py:112-113
PerProcess == (c_end - c_start + 1) \div cores
\* client.py:119
ProcessStart(i) == c_start + i * PerProcess
\* client.py:120
ProcessEnd_NoRemainder(i) == c_start + (i + 1) * PerProcess - 1
ProcessEnd(i) ==
    IF i < cores - 1 THEN c_start + (i + 1) * PerProcess - 1 ELSE c_end

\* worker: md5(num_str).hexdigest().upper() == target_hash, with target_hash
\* the digest of Format(target) and md5 free of collisions on the keyspace
Matches(num_str) == num_str = Format(target)

\* p.is_alive()
IsAlive(p) == p.state \in {"running", "returning"}

\* all(not p.is_alive() for p in processes_list) has looked at k processes,
\* none alive: it is True when the list is exhausted
AllChecked_First(k) == TRUE
AllChecked(k) == k = Len(processes_list)

ClientIdle ==
    /\ c_start = 0 /\ c_end = 0 /\ cores = 1 /\ target = -1
    /\ processes_list = << >> /\ result_queue = << >>
    /\ c_found_number = None /\ ppc = "idle" /\ chk = 0

\* a work message [start, end] has been received by a worker with `cores`
\* processes; the target lies inside the block, or outside it (MaxEnd + 1)
ClientInit ==
    /\ c_start \in 0 .. 1
    /\ c_end \in c_start .. MaxEnd
    /\ cores \in 1 .. MaxProcs
    /\ target \in (c_start .. c_end) \cup {MaxEnd + 1}
    /\ processes_list = << >>
    /\ result_queue = << >>
    /\ c_found_number = None
    /\ ppc = "spawn"
    /\ chk = 0

\* process_work: one turn of 'for i in range(cores)': p.start()
Spawn ==
    /\ ppc = "spawn"
    /\ LET i == Len(processes_list)
       IN  /\ processes_list' =
                Append(processes_list,
                       [start |-> ProcessStart(i), end |-> ProcessEnd(i),
                        number |-> ProcessStart(i), state |-> "running",
                        sigterm |-> FALSE])
           /\ ppc' = IF i + 1 = cores THEN "get" ELSE "spawn"
    /\ UNCHANGED svars
    /\ UNCHANGED pvars
    /\ UNCHANGED <<c_start, c_end, cores, target, result_queue,
                   c_found_number, chk>>

\* worker: one turn of 'for number in range(start, end + 1)' without a match
WorkerScan(i) ==
    /\ i \in DOMAIN processes_list
    /\ LET p == processes_list[i]
       IN  /\ p.state = "running"
           /\ p.number <= p.end
           /\ ~Matches(Format(p.number))
           /\ processes_list' =
                [processes_list EXCEPT ![i].number = p.number + 1]
    /\ UNCHANGED svars
    /\ UNCHANGED pvars
    /\ UNCHANGED <<c_start, c_end, cores, target, result_queue,
                   c_found_number, ppc, chk>>

\* worker: the match; result_queue.put(num_str), then return
WorkerPut(i) ==
    /\ i \in DOMAIN processes_list
    /\ LET p == processes_list[i]
       IN  /\ p.state = "running"
           /\ p.number <= p.end
           /\ Matches(Format(p.number))
           /\ result_queue' = Append(result_queue, Format(p.number))
           /\ processes_list' =
                [processes_list EXCEPT ![i].state = "returning"]
    /\ UNCHANGED svars
    /\ UNCHANGED pvars
    /\ UNCHANGED <<c_start, c_end, cores, target, c_found_number, ppc, chk>>

\* worker: the function returns (range exhausted, or after the put) and the
\* process ends
WorkerExit(i) ==
    /\ i \in DOMAIN processes_list
    /\ LET p == processes_list[i]
       IN  /\ \/ p.state = "running" /\ p.number > p.end
              \/ p.state = "returning"
           /\ processes_list' = [processes_list EXCEPT ![i].state = "exited"]
    /\ UNCHANGED svars
    /\ UNCHANGED pvars
    /\ UNCHANGED <<c_start, c_end, cores, target, result_queue,
                   c_found_number, ppc, chk>>

\* process_work: result_queue.get_nowait(); on Empty go on to the all(...)
GetNowait ==
    /\ ppc = "get"
    /\ IF result_queue # << >>
       THEN /\ c_found_number' = Head(result_queue)
            /\ result_queue' = Tail(result_queue)
            /\ ppc' = "terminate"
            /\ chk' = 0
       ELSE /\ ppc' = "alive"
            /\ chk' = 0
            /\ UNCHANGED <<c_found_number, result_queue>>
    /\ UNCHANGED svars
    /\ UNCHANGED pvars
    /\ UNCHANGED <<c_start, c_end, cores, target, processes_list>>

\* process_work: all(...) looks at the next process; an alive one makes it
\* False and the while loop turns again
AliveCheck ==
    /\ ppc = "alive"
    /\ IF IsAlive(processes_list[chk + 1])
       THEN /\ ppc' = "get"
            /\ chk' = 0
       ELSE IF AllChecked(chk + 1)
       THEN /\ ppc' = "terminate"
            /\ chk' = 0
       ELSE /\ ppc' = "alive"
            /\ chk' = chk + 1
    /\ UNCHANGED svars
    /\ UNCHANGED pvars
    /\ UNCHANGED <<c_start, c_end, cores, target, processes_list,
                   result_queue, c_found_number>>

\* process_work: one turn of 'for p in processes_list: p.terminate()'.
\* terminate() sends SIGTERM and returns; nothing waits for the process to
\* end (there is no join), so the process runs on until the signal is
\* delivered.
Terminate ==
    /\ ppc = "terminate"
    /\ LET p == processes_list[chk + 1]
       IN  processes_list' =
             [processes_list EXCEPT ![chk + 1].sigterm =
                 IF IsAlive(p) THEN TRUE ELSE p.sigterm]
    /\ IF chk + 1 = Len(processes_list)
       THEN ppc' = "report" /\ chk' = 0
       ELSE ppc' = "terminate" /\ chk' = chk + 1
    /\ UNCHANGED svars
    /\ UNCHANGED pvars
    /\ UNCHANGED <<c_start, c_end, cores, target, result_queue,
                   c_found_number>>

\* the SIGTERM sent by terminate() reaches the process, which ends
SigtermDelivered(i) ==
    /\ i \in DOMAIN processes_list
    /\ LET p == processes_list[i]
       IN  /\ p.sigterm
           /\ IsAlive(p)
           /\ processes_list' =
                [processes_list EXCEPT ![i].state = "terminated"]
    /\ UNCHANGED svars
    /\ UNCHANGED pvars
    /\ UNCHANGED <<c_start, c_end, cores, target, result_queue,
                   c_found_number, ppc, chk>>

\* process_work: 'if found_number:' sends found and returns; otherwise the
\* outer loop requests the next block
Report ==
    /\ ppc = "report"
    /\ ppc' = IF c_found_number # None THEN "sent_found" ELSE "request_work"
    /\ UNCHANGED svars
    /\ UNCHANGED pvars
    /\ UNCHANGED <<c_start, c_end, cores, target, processes_list,
                   result_queue, c_found_number, chk>>

ClientNext ==
    \/ Spawn
    \/ \E i \in 1 .. MaxProcs : WorkerScan(i)
    \/ \E i \in 1 .. MaxProcs : WorkerPut(i)
    \/ \E i \in 1 .. MaxProcs : WorkerExit(i)
    \/ GetNowait
    \/ AliveCheck
    \/ Terminate
    \/ \E i \in 1 .. MaxProcs : SigtermDelivered(i)
    \/ Report

----------------------------------------------------------------------------
\* no peer is stalled and no worker has started
PeersIdle ==
    /\ stalled = {}
    /\ inbox = [c \in Conns |-> << >>]
    /\ wpc = [c \in Conns |-> "off"]
    /\ wbuf = [c \in Conns |-> << >>]
    /\ rd = [c \in Conns |-> 0]
    /\ why = [c \in Conns |-> "none"]

Init == ServerInit /\ ClientIdle /\ PeersIdle
Next == ServerNext
Spec == Init /\ [][Next]_vars

\* the coordinator with peers that may stop taking data
StallNext ==
    \/ Next
    \/ \E c \in Conns : PeerStalls(c)
StallSpec == Init /\ [][StallNext]_vars

InitClient == ServerInit /\ ClientInit /\ PeersIdle
NextClient == ClientNext
ClientSpec == InitClient /\ [][NextClient]_vars

----------------------------------------------------------------------------
(***************************************************************************)
(* Workers and coordinator together: the outer loop of process_work on     *)
(* each connection, the handler threads reading what the workers write.    *)
(* The search of a block is taken by its outcome: the matching value or    *)
(* none when the block holds the target (ClientSpec shows both can come    *)
(* out), none otherwise.                                                   *)
(***************************************************************************)

\* get_cpu_cores()
WorkerCores == 1 .. MaxCores

\* found_number after the polling loop of process_work
SearchOutcomes(w) ==
    IF target \in w.start .. w.end THEN {Format(target), None} ELSE {None}

\* every value found_number can hold when the search of a block has ended
SearchResults == {None} \cup {Format(n) : n \in START_NUMBER .. END_NUMBER}

\* the coordinator's end of the connection is closed: by cleanup_client, or
\* with the coordinator process
ServerGone(c) == pc[c] = "closed" \/ ~running

\* process_work: connect and send register
WStart(c, k) ==
    /\ running
    /\ wpc[c] = "off"
    /\ inbox' = [inbox EXCEPT ![c] = <<[type |-> "register", cores |-> k]>>]
    /\ wpc' = [wpc EXCEPT ![c] = "request"]
    /\ UNCHANGED <<svars, cvars, stalled, wbuf, rd, why>>

\* process_work: top of 'while True': send request_work
WRequest(c) ==
    /\ wpc[c] = "request"
    /\ inbox' = [inbox EXCEPT ![c] = Append(@, [type |-> "request_work"])]
    /\ wpc' = [wpc EXCEPT ![c] = "wait"]
    /\ UNCHANGED <<svars, cvars, stalled, wbuf, rd, why>>

\* process_work: s.recv returns one or more of the lines written to the
\* connection and not yet read
WRecv(c) ==
    /\ wpc[c] = "wait"
    /\ \E n \in 1 .. (Len(sent[c]) - rd[c]) :
          /\ wbuf' = [wbuf EXCEPT ![c] =
                         SubSeq(sent[c], rd[c] + 1, rd[c] + n)]
          /\ rd' = [rd EXCEPT ![c] = rd[c] + n]
    /\ wpc' = [wpc EXCEPT ![c] = "process"]
    /\ UNCHANGED <<svars, cvars, stalled, inbox, why>>

\* process_work: s.recv returns no data: 'break'
WEof(c) ==
    /\ wpc[c] = "wait"
    /\ rd[c] = Len(sent[c])
    /\ ServerGone(c)
    /\ wpc' = [wpc EXCEPT ![c] = "done"]
    /\ why' = [why EXCEPT ![c] = "eof"]
    /\ UNCHANGED <<svars, cvars, stalled, inbox, wbuf, rd>>

\* process_work: 'while "\n" in buffer': the next line is taken; stop and
\* no_work return, work starts the search; with no line left the outer loop
\* turns
WProcess(c) ==
    /\ wpc[c] = "process"
    /\ IF wbuf[c] = << >>
       THEN /\ wpc' = [wpc EXCEPT ![c] = "request"]
            /\ UNCHANGED why
       ELSE IF Head(wbuf[c]).type = "work"
       THEN /\ wpc' = [wpc EXCEPT ![c] = "search"]
            /\ UNCHANGED why
       ELSE /\ wpc' = [wpc EXCEPT ![c] = "done"]
            /\ why' = [why EXCEPT ![c] = Head(wbuf[c]).type]
    /\ UNCHANGED <<svars, cvars, stalled, inbox, wbuf, rd>>

\* process_work: the search of the block ends with r; 'if found_number:'
\* sends found and returns, otherwise the next line is looked at
WSearch(c, r) ==
    /\ wpc[c] = "search"
    /\ r \in SearchOutcomes(Head(wbuf[c]))
    /\ IF r # None
       THEN /\ inbox' = [inbox EXCEPT ![c] =
                           Append(@, [type |-> "found", number |-> r])]
            /\ wpc' = [wpc EXCEPT ![c] = "done"]
            /\ why' = [why EXCEPT ![c] = "found"]
            /\ UNCHANGED wbuf
       ELSE /\ wbuf' = [wbuf EXCEPT ![c] = Tail(@)]
            /\ wpc' = [wpc EXCEPT ![c] = "process"]
            /\ UNCHANGED <<inbox, why>>
    /\ UNCHANGED <<svars, cvars, stalled, rd>>

\* server_main: accept() returns the connection of a worker that connected
WireAccept(c) ==
    /\ wpc[c] # "off"
    /\ Accept(c)

\* handle_client: the next line the worker wrote is read and dispatched
WireRecv(c) ==
    /\ running
    /\ pc[c] = "recv"
    /\ inbox[c] # << >>
    /\ message' = [message EXCEPT ![c] = Head(inbox[c])]
    /\ inbox' = [inbox EXCEPT ![c] = Tail(@)]
    /\ pc' = [pc EXCEPT ![c] =
                CASE Head(inbox[c]).type = "register" -> "register"
                  [] Head(inbox[c]).type = "request_work" -> "assign_work"
                  [] Head(inbox[c]).type = "found" -> "handle_found"]
    /\ UNCHANGED cvars
    /\ UNCHANGED <<lock, current_number, found, found_number, clients,
                   assigned_work, client_cores, work, running,
                   sent, issued, abandoned, broadcasts, nmsgs>>
    /\ UNCHANGED <<stalled, wpc, wbuf, rd, why>>

\* handle_client: the worker has returned and its socket is closed: recv
\* returns no data and cleanup_client runs
WireClosed(c) ==
    /\ running
    /\ pc[c] = "recv"
    /\ inbox[c] = << >>
    /\ wpc[c] = "done"
    /\ pc' = [pc EXCEPT ![c] = "cleanup"]
    /\ UNCHANGED cvars
    /\ UNCHANGED pvars
    /\ UNCHANGED <<lock, current_number, found, found_number, clients,
                   assigned_work, client_cores, message, work, running,
                   sent, issued, abandoned, broadcasts, nmsgs>>

\* TARGET_HASH is the digest of some ten-digit string, in the keyspace or
\* not
ProtocolInit ==
    /\ ServerInit
    /\ PeersIdle
    /\ target \in START_NUMBER .. END_NUMBER + 1
    /\ c_start = 0 /\ c_end = 0 /\ cores = 1
    /\ processes_list = << >> /\ result_queue = << >>
    /\ c_found_number = None /\ ppc = "idle" /\ chk = 0

ProtocolNext ==
    \/ MainExit
    \/ \E c \in Conns : WireAccept(c)
    \/ \E c \in Conns : WireRecv(c)
    \/ \E c \in Conns : WireClosed(c)
    \/ \E c \in Conns : Acquire(c)
    \/ \E c \in Conns : RegisterClient(c)
    \/ \E c \in Conns : AssignWork(c)
    \/ \E c \in Conns : SendWork(c)
    \/ \E c \in Conns : HandleFound(c)
    \/ \E c \in Conns : NotifyAllClients(c)
    \/ \E c \in Conns : CleanupClient(c)
    \/ \E c \in Conns : \E k \in WorkerCores : WStart(c, k)
    \/ \E c \in Conns : WRequest(c)
    \/ \E c \in Conns : WRecv(c)
    \/ \E c \in Conns : WEof(c)
    \/ \E c \in Conns : WProcess(c)
    \/ \E c \in Conns : \E r \in SearchResults : WSearch(c, r)
ProtocolSpec == ProtocolInit /\ [][ProtocolNext]_vars

----------------------------------------------------------------------------
(***************************************************************************)
(* Properties of the coordinator                                           *)
(***************************************************************************)

Values(w) == w.start .. w.end
Keyspace == START_NUMBER .. END_NUMBER
IssuedUnion == UNION {Values(issued[i]) : i \in DOMAIN issued}
PairwiseDisjoint ==
    \A i, j \in DOMAIN issued : i # j => Values(issued[i]) \cap Values(issued[j]) = {}
NoWorkAnswered ==
    \E c \in Conns : \E i \in DOMAIN sent[c] : sent[c][i].type = "no_work"
Disconnected(c) == pc[c] \in {"cleanup", "cleanup_locked", "closed"}
\* no disconnect so far, outcome unset, every block carved for cores >= 1
PlainRun ==
    /\ ~found
    /\ \A c \in Conns : ~Disconnected(c)
    /\ \A i \in DOMAIN issued : issued[i].cores >= 1

\* C1: with no disconnects, the outcome unset and every request made with
\* parallelism >= 1, the blocks issued so far are pairwise disjoint and
\* cover exactly [START_NUMBER, cursor - 1]; once a request has been
\* answered no_work they cover exactly [START_NUMBER, END_NUMBER].
C1_IssuedBlocksPartition ==
    PlainRun =>
        /\ PairwiseDisjoint
        /\ IssuedUnion = START_NUMBER .. (current_number - 1)
        /\ NoWorkAnswered => IssuedUnion = Keyspace

\* a no_work answer after at least two blocks issued to different workers
C1_Witness ==
    /\ PlainRun
    /\ NoWorkAnswered
    /\ \E i, j \in DOMAIN issued : issued[i].conn # issued[j].conn

\* C2: the first found report processed while found is unset records its
\* value, and once found is set neither the flag nor the recorded value
\* changes again, whatever step is taken.
C2_OutcomeSetOnce ==
    [][/\ found => (found' /\ found_number' = found_number)
       /\ \A c \in Conns :
            ( /\ pc[c] = "found_locked"
              /\ pc'[c] # "found_locked"
              /\ ~found
              /\ "number" \in DOMAIN message[c] )
            => (found' /\ found_number' = message[c].number)]_vars

\* a second report with another value has been processed and the recorded
\* value is still the first one
C2_Witness ==
    /\ found
    /\ found_number # None
    /\ \E c \in Conns :
         /\ pc[c] = "notify"
         /\ "number" \in DOMAIN message[c]
         /\ message[c].number # found_number

\* C3: in the whole execution at most one fan-out broadcast of stop is
\* performed, however many found reports are processed.
C3_SingleBroadcast == broadcasts <= 1

\* C4: the values of a block dropped at its holder's disconnect are
\* assignable again: while the outcome is unset each of them is back in the
\* unassigned region or has been issued again in a later block.
C4_AbandonedBlockAssignable ==
    ~found =>
        \A i \in abandoned : \A v \in Values(issued[i]) \cap Keyspace :
            \/ v >= current_number
            \/ \E j \in DOMAIN issued : j > i /\ v \in Values(issued[j])

\* C8: the ranges of the live assignments are pairwise disjoint and each is
\* disjoint from the unassigned region [cursor, END_NUMBER].
C8_LiveAssignmentsDisjoint ==
    /\ \A a, b \in DOMAIN assigned_work :
         a # b => Values(assigned_work[a]) \cap Values(assigned_work[b]) = {}
    /\ \A a \in DOMAIN assigned_work :
         Values(assigned_work[a]) \cap (current_number .. END_NUMBER) = {}

\* C9: the cursor never decreases and stays within
\* [START_NUMBER, END_NUMBER + 1].
C9_CursorMonotoneBounded ==
    [][/\ current_number' >= current_number
       /\ START_NUMBER <= current_number'
       /\ current_number' <= END_NUMBER + 1]_vars

\* C10: a request_work processed while found is set is answered with stop;
\* the cursor and the issued blocks are unchanged and the worker is left
\* without a live assignment.
C10_RequestAfterFoundStops ==
    [][\A c \in Conns :
         (pc[c] = "assign_locked" /\ pc'[c] # "assign_locked" /\ found)
         => /\ Len(sent'[c]) = Len(sent[c]) + 1
            /\ SubSeq(sent'[c], 1, Len(sent[c])) = sent[c]
            /\ sent'[c][Len(sent'[c])].type = "stop"
            /\ sent'[c][Len(sent'[c])].via = "assign_work"
            /\ \A d \in Conns \ {c} : sent'[d] = sent[d]
            /\ current_number' = current_number
            /\ issued' = issued
            /\ c \notin DOMAIN assigned_work'
            /\ pc'[c] = "recv"]_vars

\* a request was answered stop although the cursor had space left
C10_Witness ==
    /\ found
    /\ current_number <= END_NUMBER
    /\ \E c \in Conns :
         /\ sent[c] # << >>
         /\ sent[c][Len(sent[c])].type = "stop"
         /\ sent[c][Len(sent[c])].via = "assign_work"

\* C11: a request_work processed while the cursor is past END_NUMBER and
\* found is unset is answered with no_work; the cursor and the issued
\* blocks are unchanged and no assignment is recorded for the worker.
C11_RequestWhenExhaustedNoWork ==
    [][\A c \in Conns :
         ( /\ pc[c] = "assign_locked"
           /\ pc'[c] # "assign_locked"
           /\ current_number > END_NUMBER
           /\ ~found )
         => /\ Len(sent'[c]) = Len(sent[c]) + 1
            /\ SubSeq(sent'[c], 1, Len(sent[c])) = sent[c]
            /\ sent'[c][Len(sent'[c])].type = "no_work"
            /\ \A d \in Conns \ {c} : sent'[d] = sent[d]
            /\ current_number' = current_number
            /\ issued' = issued
            /\ c \notin DOMAIN assigned_work'
            /\ pc'[c] = "recv"]_vars

\* a request was answered no_work with the keyspace used up and found unset
C11_Witness ==
    /\ ~found
    /\ current_number > END_NUMBER
    /\ \E c \in Conns :
         /\ sent[c] # << >>
         /\ sent[c][Len(sent[c])].type = "no_work"
         /\ c \notin DOMAIN assigned_work

\* C12: once found is set the assignment table holds no entry, neither for
\* the reporter nor for any other worker.
C12_NoLiveAssignmentOnceFound == found => DOMAIN assigned_work = {}

\* C13: the coordinator process does not end while a session that has
\* handled a found report still has its stop broadcast pending or in
\* progress.
BroadcastPending(c) == pc[c] \in {"notify", "notify_locked"}
C13_ExitOnlyAfterBroadcast ==
    ~running => \A c \in Conns : ~BroadcastPending(c)

\* C15: a session that reads an unparsable line drops it: cursor, clients,
\* assigned_work, found and found_number are unchanged, nothing is sent, and
\* the session is back at its read with its own state (client_cores) intact,
\* so the next message on the connection is handled as if the line had
\* never arrived.
C15_MalformedIsDiscarded ==
    [][\A c \in Conns :
         RecvMalformed(c)
         => /\ current_number' = current_number
            /\ clients' = clients
            /\ assigned_work' = assigned_work
            /\ found' = found
            /\ found_number' = found_number
            /\ sent' = sent
            /\ lock' = lock
            /\ client_cores' = client_cores
            /\ pc'[c] = "recv"]_vars

\* the first line read on the only connection was unparsable (nothing else
\* can leave the coordinator untouched), and the request_work that followed
\* it has been dispatched
C15_Witness ==
    \E c \in Conns :
        /\ nmsgs = 2
        /\ pc[c] = "assign_work"
        /\ \A d \in Conns \ {c} : pc[d] = "unconnected"
        /\ clients = << >>
        /\ issued = << >>
        /\ ~found
        /\ \A d \in Conns : sent[d] = << >>

\* C16: no message is written to a connection while the coordinator lock is
\* held.
C16_NoSendUnderLock ==
    \A c \in Conns : \A i \in DOMAIN sent[c] : ~sent[c][i].locked

\* C19: on every connection, no work message is written after a stop.
C19_NoWorkAfterStop ==
    \A c \in Conns : \A i, j \in DOMAIN sent[c] :
        (i < j /\ sent[c][i].type = "stop") => sent[c][j].type # "work"

\* C20: whenever the lock is free, found is set exactly when a found value
\* is recorded.
C20_FlagIffValue ==
    lock = Free => (found <=> found_number # None)

\* C17: a registered peer that takes no data does not hold up the found
\* broadcast: a session that is in the broadcast always has a step to take,
\* so that it finishes and releases the lock for the other sessions.
InBroadcast(c) == pc[c] \in {"notify_locked", "notify_blocked"}
C17_BroadcastNeverBlocked ==
    running => \A c \in Conns : InBroadcast(c) => ENABLED HandlerStep(c)

\* a worker the coordinator has registered
Registered(c) == \E i \in DOMAIN clients : clients[i].conn = c

\* C14: once the outcome is found, every registered worker ends its loop on
\* a message of the protocol: it reported the match, or it received stop
\* (from the broadcast or as the answer to its next request_work) or
\* no_work; none ends on a connection that closed without an answer.
C14_WorkersEndByProtocol ==
    \A c \in Conns :
        (found /\ Registered(c) /\ wpc[c] = "done")
            => why[c] \in {"found", "stop", "no_work"}

(***************************************************************************)
(* Properties of the worker's search                                       *)
(***************************************************************************)

SearchEnded == ppc \in {"terminate", "report", "sent_found", "request_work"}
BlockHasMatch == target \in c_start .. c_end

\* C5: if some value of the block matches, the search ends with the
\* matching value and found is sent, never with none.
C5_MatchIsReturned ==
    (SearchEnded /\ BlockHasMatch) =>
        /\ c_found_number = Format(target)
        /\ ppc # "request_work"

\* C6: the polling loop ends with no result only when every sub-range
\* process has finished by itself, and in a block without a match every one
\* of them has then scanned its whole sub-range.
C6_NoneOnlyAfterAllFinished ==
    (SearchEnded /\ c_found_number = None) =>
        \A i \in DOMAIN processes_list :
            /\ processes_list[i].state = "exited"
            /\ ~BlockHasMatch =>
                 processes_list[i].number = processes_list[i].end + 1

\* a search without a match over several processes has ended with none
C6_Witness ==
    /\ ppc = "request_work"
    /\ ~BlockHasMatch
    /\ cores >= 2
    /\ c_found_number = None

ProcValues(i) == processes_list[i].start .. processes_list[i].end
ProcLen(i) == processes_list[i].end - processes_list[i].start + 1

\* C7: the sub-ranges of the `cores` processes are contiguous, pairwise
\* disjoint and cover exactly [start, end]; each of the first cores - 1
\* holds floor((end - start + 1) / cores) values and the last the rest.
C7_SubRangesPartition ==
    Len(processes_list) = cores =>
        /\ processes_list[1].start = c_start
        /\ processes_list[cores].end = c_end
        /\ \A i \in 1 .. cores - 1 :
             /\ processes_list[i + 1].start = processes_list[i].end + 1
             /\ ProcLen(i) = (c_end - c_start + 1) \div cores
        /\ ProcLen(cores) =
             (c_end - c_start + 1)
                 - (cores - 1) * ((c_end - c_start + 1) \div cores)
        /\ \A i, j \in 1 .. cores : i # j => ProcValues(i) \cap ProcValues(j) = {}
        /\ UNION {ProcValues(i) : i \in 1 .. cores} = c_start .. c_end

\* all processes started, with more processes than values in the block
C7_Witness ==
    /\ Len(processes_list) = cores
    /\ cores > c_end - c_start + 1
    /\ cores >= 2

\* C18: when the worker reports found or goes on to its next request_work,
\* no sub-range process of the block is still running.
C18_NoProcessRunsPastSearch ==
    ppc \in {"sent_found", "request_work"} =>
        \A i \in DOMAIN processes_list : ~IsAlive(processes_list[i])
====
